---- MODULE Spec2Model ----
(***************************************************************************)
(* Hospital Management System API (src/main.py, src/schemas.py).           *)
(*                                                                         *)
(* The state is the document store (five collections), the ObjectId        *)
(* generator, the wall clock, and the state of each request-handling thread*)
(* (FastAPI runs the synchronous handlers in a thread pool, so handlers    *)
(* interleave at the granularity of store operations).                     *)
(***************************************************************************)
EXTENDS Integers, Sequences, FiniteSets, TLC

VARIABLES db,       \* the document store: collection name -> set of documents
          nextOid,  \* the ObjectId the store mints next
          now,      \* the wall clock
          pc,       \* per thread: position of the handler it runs
          req,      \* per thread: the request it handles
          upd,      \* per thread: the $set document built at line 153
          resp,     \* per thread: the response of its last finished request
          log,      \* per thread: the calls its current request has made
          pre,      \* history, per thread: the store as its request found it
                    \* (kept when requests are handled one at a time)
          clean     \* history, per thread: no other request has updated the
                    \* appointment since this thread's own update_one

vars == <<db, nextOid, now, pc, req, upd, resp, log, pre, clean>>

----------------------------------------------------------------------------
(* Bounds of the model *)

\* number of hex digits of an identifier string (24 in bson; scaled down)
OidLen == 2
\* documents a collection other than appointment may hold
MaxPerCollection == 1
\* appointments the store may hold
MaxAppointments == 2
\* largest clock reading
MaxClock == 1
\* handler threads running concurrently
NThreads == 2
\* the first ObjectId the store mints
FirstOid == 10

Threads == 1..NThreads

----------------------------------------------------------------------------
(* Identifier codec: bson.ObjectId(str) and str(ObjectId) *)

HexLower == <<"0","1","2","3","4","5","6","7","8","9","a","b","c","d","e","f">>
HexUpper == <<"0","1","2","3","4","5","6","7","8","9","A","B","C","D","E","F">>

\* value of a hex digit, either case; -1 when the character is no hex digit
HexVal(c) ==
  IF \E i \in 1..16 : HexLower[i] = c
    THEN (CHOOSE i \in 1..16 : HexLower[i] = c) - 1
    ELSE IF \E i \in 1..16 : HexUpper[i] = c
      THEN (CHOOSE i \in 1..16 : HexUpper[i] = c) - 1
      ELSE -1

RECURSIVE HexNum(_)
HexNum(s) == IF s = <<>> THEN 0
             ELSE 16 * HexNum(SubSeq(s, 1, Len(s) - 1)) + HexVal(s[Len(s)])

RECURSIVE Pow16(_)
Pow16(n) == IF n = 0 THEN 1 ELSE 16 * Pow16(n - 1)

\* the result of a failed decoding (the handler answers 400)
InvalidId == -1

\* mutant: the length is checked, the digits are not
to_object_id_any_charset(id_str) ==
  IF Len(id_str) = OidLen THEN HexNum(id_str) ELSE InvalidId

\* mutant: the digits are read least significant first
to_object_id_reversed(id_str) ==
  IF Len(id_str) = OidLen /\ \A i \in 1..Len(id_str) : HexVal(id_str[i]) >= 0
    THEN HexNum([i \in 1..Len(id_str) |-> id_str[Len(id_str) + 1 - i]])
    ELSE InvalidId

\* ObjectId(id_str): the string must have the right length and only hex digits
to_object_id(id_str) ==
  IF Len(id_str) = OidLen /\ \A i \in 1..Len(id_str) : HexVal(id_str[i]) >= 0
    THEN HexNum(id_str)
    ELSE InvalidId

\* str(ObjectId): lower-case hex, fixed width
oid_str(oid) ==
  [i \in 1..OidLen |-> HexLower[((oid \div Pow16(OidLen - i)) % 16) + 1]]

\* the same identifier written with upper-case digits
upper_str(oid) ==
  [i \in 1..OidLen |-> HexUpper[((oid \div Pow16(OidLen - i)) % 16) + 1]]

----------------------------------------------------------------------------
(* Schemas (src/schemas.py) and the inputs a client may send *)

Collections == {"user", "doctor", "patient", "appointment", "prescription"}

\* Appointment.status: Literal["pending", "confirmed", "completed", "cancelled"]
Statuses == {"pending", "confirmed", "completed", "cancelled"}

\* AppointmentStatusUpdate.status: str
StatusStrings == Statuses \cup {"archived"}

Reasons == {"checkup"}

\* Appointment.scheduled_at: a time after every clock reading of the model
ScheduledAts == {MaxClock + 1}

Cap(collection) ==
  IF collection = "appointment" THEN MaxAppointments ELSE MaxPerCollection

\* every identifier the store can mint within the bounds
Oids == FirstOid..(FirstOid + 4 * MaxPerCollection + MaxAppointments - 1)

\* a string of the right length that is no hex number, as "not-an-id" is
NotAnId == [i \in 1..OidLen |-> "z"]
\* a hex string of the wrong length
ShortId == [i \in 1..(OidLen - 1) |-> "0"]
MalformedIds == {NotAnId, ShortId}

\* identifier strings requests carry: minted or not, either case, malformed
IdInputs == {oid_str(o) : o \in Oids} \cup {upper_str(FirstOid + 3)} \cup MalformedIds

\* the inputs of the concurrent specification: the first identifiers and a malformed one
LeanIds == {oid_str(o) : o \in FirstOid..(FirstOid + 3)} \cup {NotAnId}

\* an absent optional query parameter (None and the empty string are both falsy)
Absent == <<>>

ListInputs == {Absent, NotAnId, oid_str(FirstOid + 1)}
\* the statuses the concurrent specification requests
LeanStatuses == {"confirmed", "archived"}

NoReq == [op |-> "none"]
NoResp == [code |-> 0, detail |-> "", body |-> <<>>]
NoUpd == [status |-> "", updated_at |-> 0]

----------------------------------------------------------------------------
(* The store gateway *)

\* db[collection].find_one({"_id": oid}): the document, or None
Found(collection, oid) == \E d \in db[collection] : d._id = oid
find_one(collection, oid) == CHOOSE d \in db[collection] : d._id = oid

\* database.create_document: model_dump, creation metadata, insert_one
create_document(collection_name, data, ts) ==
  /\ Cardinality(db[collection_name]) < Cap(collection_name)
  /\ db' = [db EXCEPT ![collection_name] =
              @ \cup {[_id |-> nextOid, created_at |-> ts, updated_at |-> ts] @@ data}]
  /\ nextOid' = nextOid + 1

\* database.get_documents: the documents whose fields equal the filter's
get_documents(collection_name, query) ==
  {d \in db[collection_name] : \A k \in DOMAIN query : d[k] = query[k]}

\* datetime.utcnow(): the clock may have advanced since it was last read
utcnow(ts) == /\ ts \in {now, now + 1}
              /\ ts <= MaxClock
              /\ now' = ts

\* datetime.isoformat()
isoformat(ts) == <<"iso", ts>>

TimeFields == {"created_at", "updated_at", "scheduled_at"}

\* serialize: _id becomes the string id, datetimes become ISO strings
serialize(doc) ==
  [k \in (DOMAIN doc \ {"_id"}) \cup {"id"} |->
     IF k = "id" THEN oid_str(doc._id)
     ELSE IF k \in TimeFields THEN isoformat(doc[k])
     ELSE doc[k]]

----------------------------------------------------------------------------
(* Handler plumbing *)

\* a finished handler's response is sent before the next store operation is
\* scheduled: sending touches no shared state, so no behaviour of the store is lost
Quiet == \A u \in Threads : pc[u] # "done"
Idle(t) == pc[t] = "idle" /\ Quiet
At(t, l) == pc[t] = l /\ Quiet
CanInsert(collection) == Cardinality(db[collection]) < Cap(collection)

\* the handler returns or raises: the response goes out
Finish(t, r) == /\ pc' = [pc EXCEPT ![t] = "done"]
                /\ resp' = [resp EXCEPT ![t] = r]

Goto(t, l) == /\ pc' = [pc EXCEPT ![t] = l]
              /\ UNCHANGED resp

Ok(b) == [code |-> 200, detail |-> "", body |-> b]
BadId == [code |-> 400, detail |-> "Invalid ID format", body |-> <<>>]
NotFound(what) == [code |-> 404, detail |-> what, body |-> <<>>]

\* the first step of a request: its log starts afresh
Start(t, r, events) == /\ Idle(t)
                       /\ req' = [req EXCEPT ![t] = r]
                       /\ log' = [log EXCEPT ![t] = events]
More(t, events) == /\ UNCHANGED req
                   /\ log' = [log EXCEPT ![t] = @ \o events]

Decode(s) == <<"decode", s>>
Lookup(c, s) == IF to_object_id(s) = InvalidId
                  THEN <<Decode(s)>>
                  ELSE <<Decode(s), <<"find_one", c, to_object_id(s)>>>>

\* a reference check: decode, then find_one; 400, 404 or pass
CheckRef(t, collection, s, what, next) ==
  IF to_object_id(s) = InvalidId THEN Finish(t, BadId)
  ELSE IF ~Found(collection, to_object_id(s)) THEN Finish(t, NotFound(what))
  ELSE Goto(t, next)

EmptyStore == [c \in Collections |-> {}]

Init == /\ db = EmptyStore
        /\ nextOid = FirstOid
        /\ now = 0
        /\ pc = [t \in Threads |-> "idle"]
        /\ req = [t \in Threads |-> NoReq]
        /\ upd = [t \in Threads |-> NoUpd]
        /\ resp = [t \in Threads |-> NoResp]
        /\ log = [t \in Threads |-> <<>>]
        /\ pre = [t \in Threads |-> EmptyStore]
        /\ clean = [t \in Threads |-> TRUE]

----------------------------------------------------------------------------
(* Handlers.  Each action is one store operation of a handler together     *)
(* with the local computation that leads to it.                            *)

\* POST /api/users
create_user(t, role) ==
  /\ CanInsert("user")
  /\ Start(t, [op |-> "create_user", role |-> role], <<<<"insert", "user", nextOid>>>>)
  /\ \E ts \in 0..MaxClock :
       /\ utcnow(ts)
       /\ create_document("user", [role |-> role], ts)
  /\ Finish(t, Ok([id |-> oid_str(nextOid)]))
  /\ UNCHANGED <<upd, clean>>

\* mutant: the doctor is created without the user check
create_doctor_unchecked(t, user_id) ==
  /\ CanInsert("doctor")
  /\ Start(t, [op |-> "create_doctor", user_id |-> user_id], <<Decode(user_id)>>)
  /\ IF to_object_id(user_id) = InvalidId THEN Finish(t, BadId)
     ELSE Goto(t, "doctor_insert")
  /\ UNCHANGED <<db, nextOid, now, upd, clean>>

\* POST /api/doctors: the user check (line 96-97)
create_doctor(t, user_id) ==
  /\ CanInsert("doctor")
  /\ Start(t, [op |-> "create_doctor", user_id |-> user_id], Lookup("user", user_id))
  /\ CheckRef(t, "user", user_id, "User not found", "doctor_insert")
  /\ UNCHANGED <<db, nextOid, now, upd, clean>>

\* POST /api/doctors: the insert (line 98-99)
create_doctor_insert(t) ==
  /\ At(t, "doctor_insert")
  /\ More(t, <<<<"insert", "doctor", nextOid>>>>)
  /\ \E ts \in 0..MaxClock :
       /\ utcnow(ts)
       /\ create_document("doctor", [user_id |-> req[t].user_id], ts)
  /\ Finish(t, Ok([id |-> oid_str(nextOid)]))
  /\ UNCHANGED <<upd, clean>>

\* POST /api/patients: the user check (line 110-111)
create_patient(t, user_id) ==
  /\ CanInsert("patient")
  /\ Start(t, [op |-> "create_patient", user_id |-> user_id], Lookup("user", user_id))
  /\ CheckRef(t, "user", user_id, "User not found", "patient_insert")
  /\ UNCHANGED <<db, nextOid, now, upd, clean>>

\* POST /api/patients: the insert (line 112-113)
create_patient_insert(t) ==
  /\ At(t, "patient_insert")
  /\ More(t, <<<<"insert", "patient", nextOid>>>>)
  /\ \E ts \in 0..MaxClock :
       /\ utcnow(ts)
       /\ create_document("patient", [user_id |-> req[t].user_id], ts)
  /\ Finish(t, Ok([id |-> oid_str(nextOid)]))
  /\ UNCHANGED <<upd, clean>>

\* mutant: both references are decoded before the first lookup
create_appointment_eager(t, patient_id, doctor_id, reason, status) ==
  /\ CanInsert("appointment")
  /\ Start(t, [op |-> "create_appointment", patient_id |-> patient_id,
               doctor_id |-> doctor_id, reason |-> reason, status |-> status],
           <<Decode(patient_id), Decode(doctor_id)>>)
  /\ IF to_object_id(patient_id) = InvalidId \/ to_object_id(doctor_id) = InvalidId
       THEN Finish(t, BadId)
       ELSE IF ~Found("patient", to_object_id(patient_id))
         THEN Finish(t, NotFound("Patient not found"))
         ELSE Goto(t, "appt_doctor")
  /\ UNCHANGED <<db, nextOid, now, upd, clean>>

\* POST /api/appointments: the patient check (line 125-126)
create_appointment(t, patient_id, doctor_id, reason, status) ==
  /\ CanInsert("appointment")
  /\ Start(t, [op |-> "create_appointment", patient_id |-> patient_id,
               doctor_id |-> doctor_id, reason |-> reason, status |-> status],
           Lookup("patient", patient_id))
  /\ CheckRef(t, "patient", patient_id, "Patient not found", "appt_doctor")
  /\ UNCHANGED <<db, nextOid, now, upd, clean>>

\* mutant: the doctor reference is decoded but not looked up
create_appointment_doctor_unchecked(t) ==
  /\ At(t, "appt_doctor")
  /\ More(t, <<Decode(req[t].doctor_id)>>)
  /\ Goto(t, "appt_insert")
  /\ UNCHANGED <<db, nextOid, now, upd, clean>>

\* POST /api/appointments: the doctor check (line 127-128)
create_appointment_doctor(t) ==
  /\ At(t, "appt_doctor")
  /\ More(t, Lookup("doctor", req[t].doctor_id))
  /\ CheckRef(t, "doctor", req[t].doctor_id, "Doctor not found", "appt_insert")
  /\ UNCHANGED <<db, nextOid, now, upd, clean>>

\* POST /api/appointments: the insert (line 129-130)
create_appointment_insert(t) ==
  /\ At(t, "appt_insert")
  /\ More(t, <<<<"insert", "appointment", nextOid>>>>)
  /\ \E ts \in 0..MaxClock :
       /\ utcnow(ts)
       /\ create_document("appointment",
                          [patient_id |-> req[t].patient_id, doctor_id |-> req[t].doctor_id,
                           reason |-> req[t].reason,
                           scheduled_at |-> CHOOSE at \in ScheduledAts : TRUE,
                           status |-> req[t].status], ts)
  /\ Finish(t, Ok([id |-> oid_str(nextOid)]))
  /\ UNCHANGED <<upd, clean>>

\* the filter list_appointments builds: only the truthy parameters
appointment_query(patient_id, doctor_id, status) ==
  (IF patient_id # Absent THEN [patient_id |-> patient_id] ELSE <<>>) @@
  (IF doctor_id # Absent THEN [doctor_id |-> doctor_id] ELSE <<>>) @@
  (IF status # "" THEN [status |-> status] ELSE <<>>)

\* GET /api/appointments
list_appointments(t, patient_id, doctor_id, status) ==
  /\ Start(t, [op |-> "list_appointments", patient_id |-> patient_id,
               doctor_id |-> doctor_id, status |-> status],
           <<<<"find", "appointment", appointment_query(patient_id, doctor_id, status)>>>>)
  /\ Finish(t, Ok({serialize(d) :
                     d \in get_documents("appointment",
                                         appointment_query(patient_id, doctor_id, status))}))
  /\ UNCHANGED <<db, nextOid, now, upd, clean>>

\* PATCH /api/appointments/{id}: decode the id, build the $set document (line 152-153)
update_appointment_status(t, appointment_id, status) ==
  /\ Start(t, [op |-> "update_appointment_status", appointment_id |-> appointment_id,
               status |-> status], <<Decode(appointment_id)>>)
  /\ IF to_object_id(appointment_id) = InvalidId
       THEN /\ Finish(t, BadId)
            /\ UNCHANGED <<now, upd>>
       ELSE /\ Goto(t, "upd_apply")
            /\ \E ts \in 0..MaxClock :
                 /\ utcnow(ts)
                 /\ upd' = [upd EXCEPT ![t] = [status |-> status, updated_at |-> ts]]
  /\ UNCHANGED <<db, nextOid, clean>>

\* mutant: the filter is dropped, every appointment is updated
update_one_unfiltered(oid, set) ==
  [db EXCEPT !["appointment"] =
     {[d EXCEPT !.status = set.status, !.updated_at = set.updated_at] : d \in @}]

\* mutant: the status is set, updated_at is not
update_one_no_stamp(oid, set) ==
  [db EXCEPT !["appointment"] =
     {IF d._id = oid THEN [d EXCEPT !.status = set.status] ELSE d : d \in @}]

\* db["appointment"].update_one({"_id": oid}, {"$set": ...})
update_one(oid, set) ==
  [db EXCEPT !["appointment"] =
     {IF d._id = oid
        THEN [d EXCEPT !.status = set.status, !.updated_at = set.updated_at]
        ELSE d : d \in @}]

\* mutant: matched_count is not tested; serialize(None) is returned
update_appointment_apply_unmatched(t) ==
  /\ At(t, "upd_apply")
  /\ LET oid == to_object_id(req[t].appointment_id) IN
       /\ More(t, <<<<"update_one", "appointment", oid>>>>)
       /\ db' = update_one(oid, upd[t])
       /\ IF ~Found("appointment", oid)
            THEN Finish(t, Ok(<<>>))
            ELSE Goto(t, "upd_read")
       /\ clean' = [clean EXCEPT ![t] = TRUE]
  /\ UNCHANGED <<nextOid, now, upd>>

\* PATCH /api/appointments/{id}: update_one and the matched_count test (line 153-155)
update_appointment_apply(t) ==
  /\ At(t, "upd_apply")
  /\ LET oid == to_object_id(req[t].appointment_id) IN
       /\ More(t, <<<<"update_one", "appointment", oid>>>>)
       /\ db' = update_one(oid, upd[t])
       /\ IF ~Found("appointment", oid)
            THEN Finish(t, NotFound("Appointment not found"))
            ELSE Goto(t, "upd_read")
       /\ clean' = [u \in Threads |->
                      IF u = t THEN TRUE
                      ELSE IF /\ pc[u] = "upd_read"
                              /\ to_object_id(req[u].appointment_id) = oid
                             THEN FALSE
                             ELSE clean[u]]
  /\ UNCHANGED <<nextOid, now, upd>>

\* PATCH /api/appointments/{id}: the read-back (line 156-157)
update_appointment_read(t) ==
  /\ At(t, "upd_read")
  /\ LET oid == to_object_id(req[t].appointment_id) IN
       /\ More(t, <<<<"find_one", "appointment", oid>>>>)
       /\ Finish(t, Ok(serialize(find_one("appointment", oid))))
  /\ UNCHANGED <<db, nextOid, now, upd, clean>>

\* mutant: the prescription is created without the appointment check
create_prescription_unchecked(t, appointment_id) ==
  /\ CanInsert("prescription")
  /\ Start(t, [op |-> "create_prescription", appointment_id |-> appointment_id],
           <<Decode(appointment_id)>>)
  /\ IF to_object_id(appointment_id) = InvalidId THEN Finish(t, BadId)
     ELSE Goto(t, "presc_insert")
  /\ UNCHANGED <<db, nextOid, now, upd, clean>>

\* POST /api/prescriptions: the appointment check (line 163-164)
create_prescription(t, appointment_id) ==
  /\ CanInsert("prescription")
  /\ Start(t, [op |-> "create_prescription", appointment_id |-> appointment_id],
           Lookup("appointment", appointment_id))
  /\ CheckRef(t, "appointment", appointment_id, "Appointment not found", "presc_insert")
  /\ UNCHANGED <<db, nextOid, now, upd, clean>>

\* POST /api/prescriptions: the insert (line 165-166)
create_prescription_insert(t) ==
  /\ At(t, "presc_insert")
  /\ More(t, <<<<"insert", "prescription", nextOid>>>>)
  /\ \E ts \in 0..MaxClock :
       /\ utcnow(ts)
       /\ create_document("prescription", [appointment_id |-> req[t].appointment_id], ts)
  /\ Finish(t, Ok([id |-> oid_str(nextOid)]))
  /\ UNCHANGED <<upd, clean>>

\* GET /api/prescriptions
list_prescriptions(t, appointment_id) ==
  /\ Start(t, [op |-> "list_prescriptions", appointment_id |-> appointment_id],
           <<<<"find", "prescription",
               IF appointment_id # Absent THEN [appointment_id |-> appointment_id] ELSE <<>>>>>>)
  /\ Finish(t, Ok({serialize(d) :
                     d \in get_documents("prescription",
                             IF appointment_id # Absent
                               THEN [appointment_id |-> appointment_id] ELSE <<>>)}))
  /\ UNCHANGED <<db, nextOid, now, upd, clean>>

\* the response has been sent: the thread is free for the next request
respond(t) ==
  /\ pc[t] = "done"
  /\ pc' = [pc EXCEPT ![t] = "idle"]
  /\ req' = [req EXCEPT ![t] = NoReq]
  /\ upd' = [upd EXCEPT ![t] = NoUpd]
  /\ resp' = [resp EXCEPT ![t] = NoResp]
  /\ log' = [log EXCEPT ![t] = <<>>]
  /\ clean' = [clean EXCEPT ![t] = TRUE]
  /\ UNCHANGED <<db, nextOid, now>>

\* the history variable pre: the store as the request in hand found it
Snapshot(t) ==
  pre' = [pre EXCEPT ![t] = IF pc[t] = "idle" /\ pc'[t] # "idle" THEN db
                            ELSE IF pc'[t] = "idle" THEN EmptyStore
                            ELSE @]

\* requests handled one at a time
Next ==
  \/ /\ respond(1)
     /\ Snapshot(1)
  \/ /\ create_user(1, "patient")
     /\ Snapshot(1)
  \/ /\ \E s \in IdInputs : create_doctor(1, s)
     /\ Snapshot(1)
  \/ /\ create_doctor_insert(1)
     /\ Snapshot(1)
  \/ /\ \E s \in IdInputs : create_patient(1, s)
     /\ Snapshot(1)
  \/ /\ create_patient_insert(1)
     /\ Snapshot(1)
  \/ /\ \E p \in IdInputs, d \in IdInputs, r \in Reasons, s \in Statuses :
          create_appointment(1, p, d, r, s)
     /\ Snapshot(1)
  \/ /\ create_appointment_doctor(1)
     /\ Snapshot(1)
  \/ /\ create_appointment_insert(1)
     /\ Snapshot(1)
  \/ /\ \E p \in ListInputs, d \in ListInputs, s \in {"", "pending"} :
          list_appointments(1, p, d, s)
     /\ Snapshot(1)
  \/ /\ \E a \in IdInputs, s \in StatusStrings : update_appointment_status(1, a, s)
     /\ Snapshot(1)
  \/ /\ update_appointment_apply(1)
     /\ Snapshot(1)
  \/ /\ update_appointment_read(1)
     /\ Snapshot(1)
  \/ /\ \E a \in IdInputs : create_prescription(1, a)
     /\ Snapshot(1)
  \/ /\ create_prescription_insert(1)
     /\ Snapshot(1)
  \/ /\ \E a \in ListInputs : list_prescriptions(1, a)
     /\ Snapshot(1)

Spec == Init /\ [][Next]_vars

\* requests handled concurrently by the thread pool
ConcNext ==
  \E t \in Threads :
    \/ /\ respond(t)
       /\ UNCHANGED pre
    \/ /\ create_user(t, "patient")
       /\ UNCHANGED pre
    \/ /\ \E s \in LeanIds : create_doctor(t, s)
       /\ UNCHANGED pre
    \/ /\ create_doctor_insert(t)
       /\ UNCHANGED pre
    \/ /\ \E s \in LeanIds : create_patient(t, s)
       /\ UNCHANGED pre
    \/ /\ create_patient_insert(t)
       /\ UNCHANGED pre
    \/ /\ \E p \in LeanIds, d \in LeanIds, r \in Reasons, s \in {"pending"} :
            create_appointment(t, p, d, r, s)
       /\ UNCHANGED pre
    \/ /\ create_appointment_doctor(t)
       /\ UNCHANGED pre
    \/ /\ create_appointment_insert(t)
       /\ UNCHANGED pre
    \/ /\ \E p \in {Absent}, d \in {Absent} : list_appointments(t, p, d, "")
       /\ UNCHANGED pre
    \/ /\ \E a \in LeanIds, s \in LeanStatuses : update_appointment_status(t, a, s)
       /\ UNCHANGED pre
    \/ /\ update_appointment_apply(t)
       /\ UNCHANGED pre
    \/ /\ update_appointment_read(t)
       /\ UNCHANGED pre
    \/ /\ \E a \in LeanIds : create_prescription(t, a)
       /\ UNCHANGED pre
    \/ /\ create_prescription_insert(t)
       /\ UNCHANGED pre
    \/ /\ \E a \in {Absent} : list_prescriptions(t, a)
       /\ UNCHANGED pre

ConcSpec == Init /\ [][ConcNext]_vars

----------------------------------------------------------------------------
(* Properties *)

WellFormedIds == IdInputs \ MalformedIds

FoundIn(st, collection, oid) == \E d \in st[collection] : d._id = oid
DocIn(st, collection, oid) == CHOOSE d \in st[collection] : d._id = oid

\* the reference does not resolve in the store st
BadRef(st, collection, s) ==
  s \in MalformedIds \/ ~FoundIn(st, collection, to_object_id(s))

Done(t, op) == pc[t] = "done" /\ req[t].op = op

\* the identifier strings the successful creates of a collection have returned
Returned(st, collection) == {oid_str(d._id) : d \in st[collection]}

\* C1: a create_doctor or create_patient request whose well-formed user_id matches
\* no user is answered 404 "User not found" and leaves every collection as it was.
C1_UserNotFound ==
  \A t \in Threads :
    (/\ pc[t] = "done"
     /\ req[t].op \in {"create_doctor", "create_patient"}
     /\ req[t].user_id \in WellFormedIds
     /\ ~FoundIn(pre[t], "user", to_object_id(req[t].user_id)))
    => /\ resp[t] = NotFound("User not found")
       /\ db = pre[t]

C1_Witness ==
  \E t \in Threads :
    /\ Done(t, "create_doctor")
    /\ req[t].user_id \in WellFormedIds
    /\ db["user"] # {}
    /\ ~FoundIn(pre[t], "user", to_object_id(req[t].user_id))
    /\ resp[t].code = 404

\* C2: a create_appointment request with a malformed or unmatched patient_id or
\* doctor_id fails and leaves the appointment collection with as many documents.
C2_NoAppointmentCreated ==
  \A t \in Threads :
    (/\ Done(t, "create_appointment")
     /\ \/ BadRef(pre[t], "patient", req[t].patient_id)
        \/ BadRef(pre[t], "doctor", req[t].doctor_id))
    => /\ resp[t].code \in {400, 404}
       /\ Cardinality(db["appointment"]) = Cardinality(pre[t]["appointment"])
       /\ db = pre[t]

C2_Witness ==
  \E t \in Threads :
    /\ Done(t, "create_appointment")
    /\ ~BadRef(pre[t], "patient", req[t].patient_id)
    /\ BadRef(pre[t], "doctor", req[t].doctor_id)
    /\ db["doctor"] # {}
    /\ db["appointment"] # {}
    /\ resp[t].code = 404

\* the reference resolves to a stored document of the collection
Resolves(collection, s) ==
  to_object_id(s) # InvalidId /\ Found(collection, to_object_id(s))

\* C3: in every reachable state, under any interleaving of the handlers, every stored
\* reference identifies a stored document of the collection it refers to.
C3_ReferentialIntegrity ==
  /\ \A d \in db["doctor"] : Resolves("user", d.user_id)
  /\ \A d \in db["patient"] : Resolves("user", d.user_id)
  /\ \A d \in db["appointment"] :
       Resolves("patient", d.patient_id) /\ Resolves("doctor", d.doctor_id)
  /\ \A d \in db["prescription"] : Resolves("appointment", d.appointment_id)

C3_Witness ==
  /\ db["prescription"] # {}
  /\ Cardinality(db["appointment"]) = MaxAppointments
  /\ \E t \in Threads : pc[t] = "upd_read"

\* C4: create_appointment checks the patient first and fails fast: a failed patient
\* check is the error reported and the doctor_id is neither decoded nor looked up; a
\* doctor error is reported only after the patient check has passed.
C4_PatientFirst ==
  \A t \in Threads :
    Done(t, "create_appointment") =>
      LET p == req[t].patient_id
          d == req[t].doctor_id
      IN /\ p \in MalformedIds =>
              resp[t] = BadId /\ log[t] = <<Decode(p)>>
         /\ (p \in WellFormedIds /\ ~FoundIn(pre[t], "patient", to_object_id(p))) =>
              /\ resp[t] = NotFound("Patient not found")
              /\ log[t] = <<Decode(p), <<"find_one", "patient", to_object_id(p)>>>>
         /\ (resp[t] = NotFound("Doctor not found")
               \/ (resp[t] = BadId /\ p \in WellFormedIds)) =>
              /\ FoundIn(pre[t], "patient", to_object_id(p))
              /\ BadRef(pre[t], "doctor", d)

C4_Witness ==
  \E t \in Threads :
    /\ Done(t, "create_appointment")
    /\ req[t].patient_id \in WellFormedIds
    /\ ~FoundIn(pre[t], "patient", to_object_id(req[t].patient_id))
    /\ req[t].doctor_id \in MalformedIds
    /\ db["doctor"] # {}
    /\ resp[t].code = 404

\* C5: update_appointment_status on an existing appointment succeeds whatever the
\* current and the requested status, sets that appointment's status and updated_at,
\* and changes no other field, appointment or collection.
C5_UpdateFrame ==
  \A t \in Threads :
    (/\ Done(t, "update_appointment_status")
     /\ req[t].appointment_id \in WellFormedIds
     /\ FoundIn(pre[t], "appointment", to_object_id(req[t].appointment_id)))
    => /\ resp[t].code = 200
       /\ upd[t].updated_at = now
       /\ db = [pre[t] EXCEPT !["appointment"] =
                  {IF d._id = to_object_id(req[t].appointment_id)
                     THEN [d EXCEPT !.status = req[t].status, !.updated_at = now]
                     ELSE d : d \in @}]

C5_Witness ==
  \E t \in Threads :
    /\ Done(t, "update_appointment_status")
    /\ req[t].appointment_id \in WellFormedIds
    /\ FoundIn(pre[t], "appointment", to_object_id(req[t].appointment_id))
    /\ DocIn(pre[t], "appointment", to_object_id(req[t].appointment_id)).status = "completed"
    /\ req[t].status = "pending"
    /\ Cardinality(db["appointment"]) > 1
    /\ resp[t].code = 200

\* C6: update_appointment_status answers 400 to a malformed id and 404 to a
\* well-formed id that matches no appointment, and leaves the store unchanged.
C6_UpdateFailure ==
  \A t \in Threads :
    Done(t, "update_appointment_status") =>
      /\ req[t].appointment_id \in MalformedIds =>
           resp[t] = BadId /\ db = pre[t]
      /\ (/\ req[t].appointment_id \in WellFormedIds
          /\ ~FoundIn(pre[t], "appointment", to_object_id(req[t].appointment_id))) =>
           resp[t] = NotFound("Appointment not found") /\ db = pre[t]

C6_Witness ==
  \E t \in Threads :
    /\ Done(t, "update_appointment_status")
    /\ req[t].appointment_id \in WellFormedIds
    /\ ~FoundIn(pre[t], "appointment", to_object_id(req[t].appointment_id))
    /\ db["appointment"] # {}
    /\ resp[t].code = 404

\* C7: in every reachable state the status of every stored appointment is one of
\* pending, confirmed, completed, cancelled.
C7_StatusEnum ==
  \A d \in db["appointment"] : d.status \in Statuses

\* the identifier strings a request carries
IdParams(r) ==
  CASE r.op \in {"create_doctor", "create_patient"} -> {r.user_id}
    [] r.op \in {"create_appointment", "list_appointments"} -> {r.patient_id, r.doctor_id}
    [] r.op \in {"create_prescription", "update_appointment_status", "list_prescriptions"} ->
         {r.appointment_id}
    [] OTHER -> {}

\* every lookup by _id in the log follows the decoding of a string that yields that _id
DecodedFirst(l) ==
  \A i \in 1..Len(l) :
    l[i][1] \in {"find_one", "update_one"} =>
      \E j \in 1..(i - 1) : l[j][1] = "decode" /\ to_object_id(l[j][2]) = l[i][3]

CollectionOf(op) ==
  CASE op = "create_user" -> "user"
    [] op = "create_doctor" -> "doctor"
    [] op = "create_patient" -> "patient"
    [] op = "create_appointment" -> "appointment"
    [] op = "create_prescription" -> "prescription"

Creates == {"create_user", "create_doctor", "create_patient",
            "create_appointment", "create_prescription"}

\* a successful create returns the string of the _id it inserted, and a request that
\* refers to documents by strings that creates have returned passes its checks
RoundTrip(t) ==
  LET r == req[t] IN
  /\ (r.op \in Creates /\ resp[t].code = 200) =>
       resp[t].body.id \in Returned(db, CollectionOf(r.op))
                             \ Returned(pre[t], CollectionOf(r.op))
  /\ (r.op \in {"create_doctor", "create_patient"}
        /\ r.user_id \in Returned(pre[t], "user")) =>
       resp[t].code = 200
  /\ (/\ r.op = "create_appointment"
      /\ r.patient_id \in Returned(pre[t], "patient")
      /\ r.doctor_id \in Returned(pre[t], "doctor")) =>
       resp[t].code = 200
  /\ (/\ r.op \in {"create_prescription", "update_appointment_status"}
      /\ r.appointment_id \in Returned(pre[t], "appointment")) =>
       resp[t].code = 200

\* no step removes a document or changes its _id
NothingForgotten ==
  \A c \in Collections : Returned(db, c) \subseteq Returned(db', c)

\* C9: the id a successful create returns resolves in every later request that refers
\* to it, whatever requests come in between.
C9_RoundTrip ==
  /\ [](\A t \in Threads : pc[t] = "done" => RoundTrip(t))
  /\ [][NothingForgotten]_vars

C9_Witness ==
  \E t \in Threads :
    /\ Done(t, "create_prescription")
    /\ req[t].appointment_id \in Returned(pre[t], "appointment")
    /\ Cardinality(db["appointment"]) > 1
    /\ resp[t].code = 200

\* C10, as claimed: a successful update_appointment_status returns the requested status
\* and the updated_at of that same request, under any interleaving.
C10_ReturnsOwnUpdate ==
  \A t \in Threads :
    (Done(t, "update_appointment_status") /\ resp[t].code = 200)
    => /\ resp[t].body.status = req[t].status
       /\ resp[t].body.updated_at = isoformat(upd[t].updated_at)

\* the stamp a request takes is not earlier than any updated_at stored at that moment
StampNotEarlier ==
  \A t \in Threads :
    (pc[t] = "idle" /\ pc'[t] = "upd_apply") =>
      \A d \in db["appointment"] : d.updated_at <= upd'[t].updated_at

\* C10, amended: a successful update_appointment_status returns the appointment the id
\* names; it has the requested status and the request's own updated_at when no other
\* request updated that appointment between the handler's update and its read-back; the
\* stamp is not earlier than the updated_at stored when the stamp was taken.
C10_ReturnsOwnUpdateUnlessOverwritten ==
  /\ [](\A t \in Threads :
          (Done(t, "update_appointment_status") /\ resp[t].code = 200)
          => /\ resp[t].body.id \in Returned(db, "appointment")
             /\ to_object_id(resp[t].body.id) = to_object_id(req[t].appointment_id)
             /\ clean[t] => /\ resp[t].body.status = req[t].status
                            /\ resp[t].body.updated_at = isoformat(upd[t].updated_at))
  /\ [][StampNotEarlier]_vars

C10_Witness ==
  \E t \in Threads, u \in Threads :
    /\ Done(t, "update_appointment_status")
    /\ resp[t].code = 200
    /\ clean[t]
    /\ pc[u] = "upd_apply"
    /\ to_object_id(req[u].appointment_id) = to_object_id(req[t].appointment_id)
    /\ req[u].status # req[t].status

====
